---- MODULE Spec2Model ----
(***************************************************************************)
(* Model of internal/core/rtsp_source.go: one rtspSource with its run      *)
(* goroutine, the dial goroutine and the read goroutine of each            *)
(* runInner() attempt, the external callers of Close() and of the parent   *)
(* context's cancel function, and the parent sink that receives the        *)
(* notifications and the frames.                                           *)
(*                                                                         *)
(* A select statement is modelled as Go executes it: when it is evaluated  *)
(* it picks any one of the cases that can proceed; when none can, the      *)
(* goroutine parks and the first channel operation that makes a case       *)
(* ready commits the goroutine to that case.                               *)
(***************************************************************************)
EXTENDS Integers, Sequences, FiniteSets, TLC

\* ---------------------------------------------------------------- bounds
MaxCloseCalls == 2      \* calls of Close() the environment makes
MaxFrames     == 2      \* frames the transport delivers in one session
MaxNotes      == 3      \* length of the window of recorded notifications
MaxAttempts   == 2      \* saturation of the counter of dial attempts

Frames == {"f1", "f2"}  \* (trackID, streamType, payload) triples

VARIABLES
    CountSourcesRTSP,   \* stats.CountSourcesRTSP
    closeCalls,         \* number of Close() calls made so far
    ctxDone,            \* s.ctx is cancelled
    wg,                 \* s.wg counter
    pc,                 \* position of the run goroutine
    ok,                 \* value runInner is returning (read by the deferred call)
    innerCtxDone,       \* innerCtx is cancelled
    dial,               \* dial goroutine: "idle", "running", "exited" (dialDone closed)
    conn,               \* conn: "nil", "open", "closed"
    err,                \* err of the dial: "nil", "fail", "canceled"
    reader,             \* read goroutine: "idle","reading","callback","sending","exited"
    readErr,            \* value being sent on readErr: "none", "fail", "closed"
    delivered,          \* frames the transport passed to the callback, this session
    relayed,            \* frames passed to parent.OnSourceFrame, this session
    sinkReady,          \* readiness state at the parent sink
    notes,              \* window of the last notifications sent to the sink
    firstNote,          \* first notification ever sent: "none","ready","notReady"
    errLog,             \* causes of the errors logged as "ERR: ..."
    attempts,           \* dial attempts started (saturating)
    dialEverDone,       \* some dial operation has completed
    earlyCancel,        \* s.ctx was cancelled before any dial completed
    cancelInRead,       \* s.ctx was cancelled while conn.ReadFrames was running
    sent,               \* notifications sent by the current attempt of runInner
    closes,             \* conn.Close() calls on the session of the current attempt
    fingerprint,        \* s.fingerprint, a sequence of characters
    tlsPhase,           \* TLS handshake of a dial: "idle", "verify", "done"
    peerCert,           \* cs.PeerCertificates[0] presented by the peer
    chainValid,         \* the peer's chain passes standard validation
    tlsErr              \* result of VerifyConnection: "none", "nil", "mismatch"

vars == <<CountSourcesRTSP, closeCalls, ctxDone, wg, pc, ok, innerCtxDone,
          dial, conn, err, reader, readErr, delivered, relayed, sinkReady,
          notes, firstNote, errLog, attempts, dialEverDone, earlyCancel,
          cancelInRead, sent, closes, fingerprint, tlsPhase, peerCert,
          chainValid, tlsErr>>

sinkVars == <<sinkReady, notes, firstNote, sent>>
histVars == <<attempts, dialEverDone, earlyCancel, cancelInRead>>
dialVars == <<innerCtxDone, dial, conn, err>>
readVars == <<reader, readErr, delivered, relayed, closes>>
extVars  == <<CountSourcesRTSP, closeCalls>>
tlsVars  == <<fingerprint, tlsPhase, peerCert, chainValid, tlsErr>>

\* ------------------------------------------------------------- helpers
Push(s, e) == IF Len(s) < MaxNotes THEN Append(s, e) ELSE Append(Tail(s), e)

Notify(n) ==
    /\ notes' = Push(notes, n)
    /\ firstNote' = IF firstNote = "none" THEN n ELSE firstNote
    /\ sent' = sent \cup {n}

\* Variant of Wake: the pause of run() is not raced against s.ctx.Done().
WakeSleepingPause(p) ==
    CASE p = "dialParked"     -> "dialCancel"
      [] p = "readParked"     -> "readCancel"
      [] OTHER                -> p

\* The case <-s.ctx.Done() of the select the run goroutine is parked in.
Wake(p) ==
    CASE p = "dialParked"     -> "dialCancel"
      [] p = "readParked"     -> "readCancel"
      [] p = "cooldownParked" -> "exit"
      [] OTHER                -> p

\* s.ctxCancel() called from outside the run goroutine.
CtxCancel ==
    /\ ctxDone' = TRUE
    /\ pc' = IF ctxDone THEN pc ELSE Wake(pc)
    /\ earlyCancel' = IF ctxDone THEN earlyCancel ELSE ~dialEverDone
    /\ cancelInRead' = IF ctxDone THEN cancelInRead
                                  ELSE reader \in {"reading", "callback"}

\* The outcomes client.DialReadContext(innerCtx, s.ur) can have.
DialOutcomes(cancelled) ==
    IF cancelled THEN {"canceled", "fail"} ELSE {"nil", "fail"}

\* ---------------------------------------------------------------- Init
\* The state newRTSPSource leaves, but for the configured fingerprint.
InitSource ==
    /\ CountSourcesRTSP = 1
    /\ closeCalls = 0
    /\ ctxDone = FALSE
    /\ wg = 1
    /\ pc = "runInner"
    /\ ok = TRUE
    /\ innerCtxDone = FALSE
    /\ dial = "idle"
    /\ conn = "nil"
    /\ err = "nil"
    /\ reader = "idle"
    /\ readErr = "none"
    /\ delivered = <<>>
    /\ relayed = <<>>
    /\ sinkReady = FALSE
    /\ notes = <<>>
    /\ firstNote = "none"
    /\ errLog = {}
    /\ attempts = 0
    /\ dialEverDone = FALSE
    /\ earlyCancel = FALSE
    /\ cancelInRead = FALSE
    /\ sent = {}
    /\ closes = 0
    /\ tlsPhase = "idle"
    /\ peerCert = "none"
    /\ chainValid = FALSE
    /\ tlsErr = "none"

Init ==
    /\ InitSource
    /\ fingerprint = <<>>

\* ------------------------------------------------------- the environment
Close ==
    /\ closeCalls < MaxCloseCalls
    /\ closeCalls' = closeCalls + 1
    /\ CountSourcesRTSP' = CountSourcesRTSP - 1
    /\ CtxCancel
    /\ UNCHANGED <<tlsVars, wg, ok, dialVars, readVars, sinkVars, errLog, attempts, dialEverDone>>

ParentCancel ==
    /\ ~ctxDone
    /\ CtxCancel
    /\ UNCHANGED <<tlsVars, extVars, wg, ok, dialVars, readVars, sinkVars, errLog, attempts, dialEverDone>>

\* ------------------------------------------------ runInner: dial phase
RunInnerStart ==
    /\ pc = "runInner"
    /\ pc' = "dialSelect"
    /\ innerCtxDone' = FALSE
    /\ conn' = "nil"
    /\ err' = "nil"
    /\ dial' = "running"
    /\ reader' = "idle"
    /\ readErr' = "none"
    /\ delivered' = <<>>
    /\ relayed' = <<>>
    /\ closes' = 0
    /\ sent' = {}
    /\ attempts' = IF attempts < MaxAttempts THEN attempts + 1 ELSE attempts
    /\ UNCHANGED <<tlsVars, extVars, ctxDone, wg, ok, sinkReady, notes, firstNote, errLog,
                   dialEverDone, earlyCancel, cancelInRead>>

DialComplete ==
    /\ dial = "running"
    /\ \E r \in DialOutcomes(innerCtxDone) :
          /\ err' = r
          /\ conn' = IF r = "nil" THEN "open" ELSE "nil"
    /\ dial' = "exited"
    /\ dialEverDone' = TRUE
    /\ pc' = IF pc = "dialParked" THEN "dialDoneCase" ELSE pc
    /\ UNCHANGED <<tlsVars, extVars, ctxDone, wg, ok, innerCtxDone, readVars, sinkVars,
                   errLog, attempts, earlyCancel, cancelInRead>>

DialSelect ==
    /\ pc = "dialSelect"
    /\ \/ ctxDone /\ pc' = "dialCancel"
       \/ dial = "exited" /\ pc' = "dialDoneCase"
       \/ ~ctxDone /\ dial # "exited" /\ pc' = "dialParked"
    /\ UNCHANGED <<tlsVars, extVars, ctxDone, wg, ok, dialVars, readVars, sinkVars, errLog, histVars>>

\* Variant of DialCancel: innerCtxCancel() is forgotten on cancellation.
DialCancelKeepsInnerCtx ==
    /\ pc = "dialCancel"
    /\ pc' = "dialJoin"
    /\ UNCHANGED <<tlsVars, extVars, ctxDone, wg, ok, dialVars, readVars, sinkVars,
                   errLog, histVars>>

DialCancel ==
    /\ pc = "dialCancel"
    /\ innerCtxDone' = TRUE
    /\ pc' = "dialJoin"
    /\ UNCHANGED <<tlsVars, extVars, ctxDone, wg, ok, dial, conn, err, readVars, sinkVars,
                   errLog, histVars>>

\* Variant of DialJoin: the dial goroutine is not awaited on cancellation.
DialJoinNoWait ==
    /\ pc = "dialJoin"
    /\ ok' = FALSE
    /\ pc' = "exit"
    /\ UNCHANGED <<tlsVars, extVars, ctxDone, wg, dialVars, readVars, sinkVars, errLog, histVars>>

\* Variant of DialJoin: the teardown is deferred before the dial phase.
DialJoinDeferredFirst ==
    /\ pc = "dialJoin"
    /\ dial = "exited"
    /\ ok' = FALSE
    /\ pc' = "deferred"
    /\ UNCHANGED <<tlsVars, extVars, ctxDone, wg, dialVars, readVars, sinkVars, errLog, histVars>>

DialJoin ==
    /\ pc = "dialJoin"
    /\ dial = "exited"
    /\ ok' = FALSE
    /\ pc' = "exit"
    /\ UNCHANGED <<tlsVars, extVars, ctxDone, wg, dialVars, readVars, sinkVars, errLog, histVars>>

\* Variant of DialDoneCase: a failed dial is retried without the pause.
DialDoneCaseRetriesAtOnce ==
    /\ pc = "dialDoneCase"
    /\ innerCtxDone' = TRUE
    /\ IF err # "nil"
         THEN /\ errLog' = errLog \cup {<<"dial", err>>}
              /\ ok' = TRUE
              /\ pc' = "runInner"
         ELSE /\ pc' = "setReady"
              /\ UNCHANGED <<errLog, ok>>
    /\ UNCHANGED <<tlsVars, extVars, ctxDone, wg, dial, conn, err, readVars, sinkVars, histVars>>

DialDoneCase ==
    /\ pc = "dialDoneCase"
    /\ innerCtxDone' = TRUE
    /\ IF err # "nil"
         THEN /\ errLog' = errLog \cup {<<"dial", err>>}
              /\ ok' = TRUE
              /\ pc' = "cooldownSelect"
         ELSE /\ pc' = "setReady"
              /\ UNCHANGED <<errLog, ok>>
    /\ UNCHANGED <<tlsVars, extVars, ctxDone, wg, dial, conn, err, readVars, sinkVars, histVars>>

\* ------------------------------------------- runInner: readiness handoff
SetReady ==
    /\ pc = "setReady"
    /\ sinkReady' = TRUE
    /\ Notify("ready")
    /\ pc' = "spawnRead"
    /\ UNCHANGED <<tlsVars, extVars, ctxDone, wg, ok, dialVars, readVars, errLog, histVars>>

\* ------------------------------------------------ runInner: read phase
SpawnRead ==
    /\ pc = "spawnRead"
    /\ reader' = "reading"
    /\ pc' = "readSelect"
    /\ UNCHANGED <<tlsVars, extVars, ctxDone, wg, ok, dialVars, readErr, delivered, relayed, closes,
                   sinkVars, errLog, histVars>>

\* conn.ReadFrames invokes the callback with the next frame of the session.
TransportDeliver ==
    /\ reader = "reading"
    /\ conn = "open"
    /\ Len(delivered) < MaxFrames
    /\ \E f \in Frames : delivered' = Append(delivered, f)
    /\ reader' = "callback"
    /\ UNCHANGED <<tlsVars, extVars, ctxDone, wg, pc, ok, dialVars, readErr, relayed, closes,
                   sinkVars, errLog, histVars>>

\* Variant of OnSourceFrame: the newest frame is put in front of the others.
OnSourceFrameNewestFirst ==
    /\ reader = "callback"
    /\ relayed' = <<delivered[Len(delivered)]>> \o relayed
    /\ reader' = "reading"
    /\ UNCHANGED <<tlsVars, extVars, ctxDone, wg, pc, ok, dialVars, readErr, delivered, closes,
                   sinkVars, errLog, histVars>>

\* The callback: s.parent.OnSourceFrame(trackID, streamType, payload).
OnSourceFrame ==
    /\ reader = "callback"
    /\ relayed' = Append(relayed, delivered[Len(delivered)])
    /\ reader' = "reading"
    /\ UNCHANGED <<tlsVars, extVars, ctxDone, wg, pc, ok, dialVars, readErr, delivered, closes,
                   sinkVars, errLog, histVars>>

\* conn.ReadFrames returns its error and the goroutine sends it on readErr.
ReadReturn ==
    /\ reader = "reading"
    /\ readErr' = IF conn = "closed" THEN "closed" ELSE "fail"
    /\ reader' = "sending"
    /\ pc' = IF pc = "readParked" THEN "readErrCase" ELSE pc
    /\ UNCHANGED <<tlsVars, extVars, ctxDone, wg, ok, dialVars, delivered, relayed, closes,
                   sinkVars, errLog, histVars>>

ReadSelect ==
    /\ pc = "readSelect"
    /\ \/ ctxDone /\ pc' = "readCancel"
       \/ reader = "sending" /\ pc' = "readErrCase"
       \/ ~ctxDone /\ reader # "sending" /\ pc' = "readParked"
    /\ UNCHANGED <<tlsVars, extVars, ctxDone, wg, ok, dialVars, readVars, sinkVars, errLog, histVars>>

\* Variant of ReadCancel: the session is not closed on cancellation.
ReadCancelNoClose ==
    /\ pc = "readCancel"
    /\ pc' = "readJoin"
    /\ UNCHANGED <<tlsVars, extVars, ctxDone, wg, ok, dialVars, readVars,
                   sinkVars, errLog, histVars>>

ReadCancel ==
    /\ pc = "readCancel"
    /\ conn' = "closed"
    /\ closes' = closes + 1
    /\ pc' = "readJoin"
    /\ UNCHANGED <<tlsVars, extVars, ctxDone, wg, ok, innerCtxDone, dial, err,
                   reader, readErr, delivered, relayed,
                   sinkVars, errLog, histVars>>

\* Variant of ReadJoin: the error received after the close is logged.
ReadJoinLogsErr ==
    /\ pc = "readJoin"
    /\ reader = "sending"
    /\ reader' = "exited"
    /\ errLog' = errLog \cup {<<"read", readErr>>}
    /\ ok' = FALSE
    /\ pc' = "deferred"
    /\ UNCHANGED <<tlsVars, extVars, ctxDone, wg, dialVars, readErr, delivered, relayed, closes,
                   sinkVars, histVars>>

\* Variant of ReadJoin: the result of the read goroutine is not awaited.
ReadJoinNoWait ==
    /\ pc = "readJoin"
    /\ ok' = FALSE
    /\ pc' = "deferred"
    /\ UNCHANGED <<tlsVars, extVars, ctxDone, wg, dialVars, readVars, sinkVars, errLog, histVars>>

ReadJoin ==
    /\ pc = "readJoin"
    /\ reader = "sending"
    /\ reader' = "exited"
    /\ ok' = FALSE
    /\ pc' = "deferred"
    /\ UNCHANGED <<tlsVars, extVars, ctxDone, wg, dialVars, readErr, delivered, relayed, closes,
                   sinkVars, errLog, histVars>>

ReadErrCase ==
    /\ pc = "readErrCase"
    /\ reader' = "exited"
    /\ errLog' = errLog \cup {<<"read", readErr>>}
    /\ pc' = "readErrClose"
    /\ UNCHANGED <<tlsVars, extVars, ctxDone, wg, ok, dialVars, readErr, delivered, relayed, closes,
                   sinkVars, histVars>>

\* Variant of ReadErrClose: the read failure returns without the teardown.
ReadErrCloseNoTeardown ==
    /\ pc = "readErrClose"
    /\ conn' = "closed"
    /\ closes' = closes + 1
    /\ ok' = TRUE
    /\ pc' = "cooldownSelect"
    /\ UNCHANGED <<tlsVars, extVars, ctxDone, wg, innerCtxDone, dial, err,
                   reader, readErr, delivered, relayed,
                   sinkVars, errLog, histVars>>

ReadErrClose ==
    /\ pc = "readErrClose"
    /\ conn' = "closed"
    /\ closes' = closes + 1
    /\ ok' = TRUE
    /\ pc' = "deferred"
    /\ UNCHANGED <<tlsVars, extVars, ctxDone, wg, innerCtxDone, dial, err,
                   reader, readErr, delivered, relayed,
                   sinkVars, errLog, histVars>>

\* ------------------------------------------- runInner: deferred teardown
\* Variant of SetNotReady: the teardown also closes the session.
SetNotReadyClosesConn ==
    /\ pc = "deferred"
    /\ sinkReady' = FALSE
    /\ Notify("notReady")
    /\ conn' = "closed"
    /\ closes' = closes + 1
    /\ pc' = IF ok THEN "cooldownSelect" ELSE "exit"
    /\ UNCHANGED <<tlsVars, extVars, ctxDone, wg, ok, innerCtxDone, dial, err,
                   reader, readErr, delivered, relayed, errLog, histVars>>

\* Variant of SetNotReady: the teardown notifies on the failure path only.
SetNotReadyOnFailureOnly ==
    /\ pc = "deferred"
    /\ IF ok THEN sinkReady' = FALSE /\ Notify("notReady")
             ELSE UNCHANGED sinkVars
    /\ pc' = IF ok THEN "cooldownSelect" ELSE "exit"
    /\ UNCHANGED <<tlsVars, extVars, ctxDone, wg, ok, dialVars, readVars, errLog, histVars>>

SetNotReady ==
    /\ pc = "deferred"
    /\ sinkReady' = FALSE
    /\ Notify("notReady")
    /\ pc' = IF ok THEN "cooldownSelect" ELSE "exit"
    /\ UNCHANGED <<tlsVars, extVars, ctxDone, wg, ok, dialVars, readVars, errLog, histVars>>

\* ------------------------------------------------------ run: the pause
\* Variant of CooldownSelect: run() gives up after MaxAttempts attempts.
CooldownSelectRetryLimit ==
    /\ pc = "cooldownSelect"
    /\ pc' = IF ctxDone \/ attempts >= MaxAttempts THEN "exit" ELSE "cooldownParked"
    /\ UNCHANGED <<tlsVars, extVars, ctxDone, wg, ok, dialVars, readVars, sinkVars, errLog, histVars>>

CooldownSelect ==
    /\ pc = "cooldownSelect"
    /\ pc' = IF ctxDone THEN "exit" ELSE "cooldownParked"
    /\ UNCHANGED <<tlsVars, extVars, ctxDone, wg, ok, dialVars, readVars, sinkVars, errLog, histVars>>

\* time.After(rtspSourceRetryPause) fires while the run goroutine is parked.
TimerFire ==
    /\ pc = "cooldownParked"
    /\ pc' = "runInner"
    /\ UNCHANGED <<tlsVars, extVars, ctxDone, wg, ok, dialVars, readVars, sinkVars, errLog, histVars>>

\* ------------------------------------------------------- run: the exit
RunExit ==
    /\ pc = "exit"
    /\ ctxDone' = TRUE
    /\ wg' = wg - 1
    /\ pc' = "stopped"
    /\ UNCHANGED <<tlsVars, extVars, ok, dialVars, readVars, sinkVars, errLog, histVars>>

\* ------------------------------------------------------ specifications
RunStep ==
    \/ RunInnerStart \/ DialSelect \/ DialCancel \/ DialJoin \/ DialDoneCase
    \/ SetReady \/ SpawnRead \/ ReadSelect \/ ReadCancel \/ ReadJoin
    \/ ReadErrCase \/ ReadErrClose \/ SetNotReady \/ CooldownSelect \/ RunExit

Next ==
    \/ Close
    \/ ParentCancel
    \/ RunInnerStart
    \/ DialComplete
    \/ DialSelect
    \/ DialCancel
    \/ DialJoin
    \/ DialDoneCase
    \/ SetReady
    \/ SpawnRead
    \/ TransportDeliver
    \/ OnSourceFrame
    \/ ReadReturn
    \/ ReadSelect
    \/ ReadCancel
    \/ ReadJoin
    \/ ReadErrCase
    \/ ReadErrClose
    \/ SetNotReady
    \/ CooldownSelect
    \/ TimerFire
    \/ RunExit

Spec == Init /\ [][Next]_vars

\* The scheduler runs every goroutine that can run; the timer fires; the
\* dial returns once innerCtx is cancelled; ReadFrames returns once the
\* session is closed.
Fairness ==
    /\ WF_vars(RunStep)
    /\ WF_vars(TimerFire)
    /\ WF_vars(OnSourceFrame)
    /\ WF_vars(innerCtxDone /\ DialComplete)
    /\ WF_vars(conn = "closed" /\ ReadReturn)

LiveSpec == Spec /\ Fairness

TypeOK ==
    /\ CountSourcesRTSP \in -MaxCloseCalls..1
    /\ closeCalls \in 0..MaxCloseCalls
    /\ ctxDone \in BOOLEAN
    /\ wg \in {0, 1}
    /\ pc \in {"runInner", "dialSelect", "dialParked", "dialCancel", "dialJoin",
               "dialDoneCase", "setReady", "spawnRead", "readSelect", "readParked",
               "readCancel", "readJoin", "readErrCase", "readErrClose", "deferred",
               "cooldownSelect", "cooldownParked", "exit", "stopped"}
    /\ dial \in {"idle", "running", "exited"}
    /\ conn \in {"nil", "open", "closed"}
    /\ err \in {"nil", "fail", "canceled"}
    /\ reader \in {"idle", "reading", "callback", "sending", "exited"}
    /\ readErr \in {"none", "fail", "closed"}
    /\ Len(delivered) <= MaxFrames
    /\ Len(notes) <= MaxNotes
    /\ attempts \in 0..MaxAttempts

\* ------------------------------------------- TLSConfig.VerifyConnection
MaxFpLen == 2           \* length of the configured fingerprints tried

FpChars == {"a", "b", "A", "B", "1", "2"}

\* The values s.fingerprint is configured with.
Fingerprints == UNION {[1..n -> FpChars] : n \in 0..MaxFpLen}

\* The leaf certificates a peer presents.
Certs == {"certAB", "cert12", "certA1", "cert0B"}

\* sha256 of cs.PeerCertificates[0].Raw, as a sequence of bytes.
Sha256(cert) ==
    CASE cert = "certAB" -> <<171>>
      [] cert = "cert12" -> <<18>>
      [] cert = "certA1" -> <<161>>
      [] cert = "cert0B" -> <<11>>

HexDigits == <<"0", "1", "2", "3", "4", "5", "6", "7",
               "8", "9", "a", "b", "c", "d", "e", "f">>

\* hex.EncodeToString: two lower-case digits per byte, high nibble first.
HexEncode(bytes) ==
    [i \in 1..(2 * Len(bytes)) |->
        IF i % 2 = 1 THEN HexDigits[(bytes[(i + 1) \div 2] \div 16) + 1]
                     ELSE HexDigits[(bytes[i \div 2] % 16) + 1]]

UpperLetters == <<"A", "B", "C", "D", "E", "F", "G", "H", "I", "J", "K", "L", "M",
                  "N", "O", "P", "Q", "R", "S", "T", "U", "V", "W", "X", "Y", "Z">>
LowerLetters == <<"a", "b", "c", "d", "e", "f", "g", "h", "i", "j", "k", "l", "m",
                  "n", "o", "p", "q", "r", "s", "t", "u", "v", "w", "x", "y", "z">>

ToLowerChar(c) ==
    IF \E i \in 1..Len(UpperLetters) : UpperLetters[i] = c
      THEN LowerLetters[CHOOSE i \in 1..Len(UpperLetters) : UpperLetters[i] = c]
      ELSE c

\* strings.ToLower
ToLower(str) == [i \in 1..Len(str) |-> ToLowerChar(str[i])]

\* Variant of VerifyConnection: the fingerprint is compared as configured.
VerifyConnectionExact(cert, fp) ==
    LET hstr == HexEncode(Sha256(cert))
    IN  IF hstr # fp THEN "mismatch" ELSE "nil"

\* Variant of VerifyConnection: an empty fingerprint disables the check.
VerifyConnectionSkipsEmpty(cert, fp) ==
    LET hstr == HexEncode(Sha256(cert))
        fingerprintLower == ToLower(fp)
    IN  IF fp # <<>> /\ hstr # fingerprintLower THEN "mismatch" ELSE "nil"

\* The callback of tls.Config: nil, or the "do not match" error.
VerifyConnection(cert, fp) ==
    LET hstr == HexEncode(Sha256(cert))
        fingerprintLower == ToLower(fp)
    IN  IF hstr # fingerprintLower THEN "mismatch" ELSE "nil"

sourceVars == <<CountSourcesRTSP, closeCalls, ctxDone, wg, pc, ok, innerCtxDone,
                dial, conn, err, reader, readErr, delivered, relayed, sinkReady,
                notes, firstNote, errLog, attempts, dialEverDone, earlyCancel,
                cancelInRead, sent, closes>>

\* The peer presents its certificate; InsecureSkipVerify: true makes the
\* handshake go on whatever the standard validation of the chain says.
TLSPresent ==
    /\ tlsPhase = "idle"
    /\ \E c \in Certs : peerCert' = c
    /\ \E v \in BOOLEAN : chainValid' = v
    /\ tlsPhase' = "verify"
    /\ UNCHANGED <<sourceVars, fingerprint, tlsErr>>

TLSVerify ==
    /\ tlsPhase = "verify"
    /\ tlsErr' = VerifyConnection(peerCert, fingerprint)
    /\ tlsPhase' = "done"
    /\ UNCHANGED <<sourceVars, fingerprint, peerCert, chainValid>>

\* The next attempt of runInner builds a new client and dials again.
TLSRedial ==
    /\ tlsPhase = "done"
    /\ tlsPhase' = "idle"
    /\ peerCert' = "none"
    /\ chainValid' = FALSE
    /\ tlsErr' = "none"
    /\ UNCHANGED <<sourceVars, fingerprint>>

TLSInit ==
    /\ InitSource
    /\ fingerprint \in Fingerprints

TLSNext ==
    \/ TLSPresent
    \/ TLSVerify
    \/ TLSRedial

TLSSpec == TLSInit /\ [][TLSNext]_vars

\* ---------------------------------------------------------- properties
Last(s) == s[Len(s)]

\* The attempt of runInner has returned (or none has started yet).
AttemptEnded ==
    pc \in {"runInner", "cooldownSelect", "cooldownParked", "exit", "stopped"}

Cooling == pc \in {"cooldownSelect", "cooldownParked"}

\* C1: the notifications sent to the parent sink strictly alternate and
\* start with ready: no two consecutive notifications are equal and the
\* first notification ever sent is not a not-ready.
C1_NotificationsAlternate ==
    /\ firstNote # "notReady"
    /\ \A i \in 1..(Len(notes) - 1) : notes[i] # notes[i + 1]
    /\ sinkReady <=> (notes # <<>> /\ Last(notes) = "ready")

C1_Witness ==
    /\ Len(notes) = MaxNotes
    /\ Last(notes) = "notReady"
    /\ pc = "stopped"

\* C2: every step that relays a frame to parent.OnSourceFrame is taken
\* while the sink is in the ready state, and leaves it ready.
C2_FramesOnlyWhileReady ==
    [][Len(relayed') > Len(relayed) => (sinkReady /\ sinkReady')]_vars

C2_Witness ==
    /\ Len(relayed) = MaxFrames
    /\ ctxDone
    /\ conn = "closed"
    /\ sinkReady

\* C3: when an attempt of runInner has ended, the session its dial
\* obtained is not open any more.
C3_SessionClosedAtEnd == AttemptEnded => conn # "open"

\* C4: once s.ctx is cancelled, run() eventually exits and signals the
\* wait group.
C4_CancelLeadsToStopped == ctxDone ~> (pc = "stopped" /\ wg = 0)

C4_Witness ==
    /\ pc = "stopped"
    /\ wg = 0
    /\ closeCalls > 0
    /\ firstNote = "ready"
    /\ errLog # {}

\* C5: when s.ctx is cancelled before any dial has completed, no ready
\* notification is ever sent.
C5_NoReadyAfterEarlyCancel == earlyCancel => firstNote = "none"

\* C6: a Close() on a source whose run() has exited changes neither the
\* lifecycle token, nor the counter of active sources, nor the
\* notifications sent.
C6_CloseIdempotent ==
    [][(pc = "stopped" /\ closeCalls' > closeCalls)
          => UNCHANGED <<ctxDone, CountSourcesRTSP, notes>>]_vars

\* C7: the counter of active sources is never negative and is back at its
\* initial value 0 once the source is stopped.
C7_CounterBalanced ==
    /\ CountSourcesRTSP >= 0
    /\ pc = "stopped" => CountSourcesRTSP = 0

\* C8: run() leaves its loop only when s.ctx is cancelled, and every pause
\* that follows a failed attempt leads to a new dial unless s.ctx is
\* cancelled.
C8_RetriesUntilCancelled ==
    /\ [](pc = "exit" => ctxDone)
    /\ Cooling ~> (pc = "dialSelect" \/ ctxDone)

C8_Witness ==
    /\ pc = "dialSelect"
    /\ ~ctxDone
    /\ attempts = MaxAttempts
    /\ <<"dial", "fail">> \in errLog
    /\ <<"read", "fail">> \in errLog

\* C9: a cancellation of s.ctx during the pause takes run() to its exit
\* at once: the timer need not fire and no new attempt is started.
C9_CancelEndsPause ==
    [][(Cooling /\ ctxDone')
          => (/\ pc' \in {"exit", "cooldownSelect"}
              /\ pc = "cooldownParked" => pc' = "exit"
              /\ attempts' = attempts)]_vars

C9_Witness ==
    /\ pc = "exit"
    /\ ok
    /\ ctxDone
    /\ dial = "exited"

\* C10: during the pause, during a dial and after run() has left its
\* loop the sink is not ready, and the last notification sent, if any,
\* is a not-ready.
C10_NotReadyOutsideStreaming ==
    pc \in {"cooldownSelect", "cooldownParked", "runInner", "dialSelect",
            "dialParked", "dialCancel", "dialJoin", "dialDoneCase",
            "exit", "stopped"}
       => (~sinkReady /\ (notes = <<>> \/ Last(notes) = "notReady"))

C10_Witness ==
    /\ pc = "cooldownParked"
    /\ firstNote = "ready"
    /\ attempts = MaxAttempts

\* Equality of two strings up to the case of their letters.
ToUpperChar(c) ==
    IF \E i \in 1..Len(LowerLetters) : LowerLetters[i] = c
      THEN UpperLetters[CHOOSE i \in 1..Len(LowerLetters) : LowerLetters[i] = c]
      ELSE c

EqualFold(a, b) ==
    /\ Len(a) = Len(b)
    /\ \A i \in 1..Len(a) : ToUpperChar(a[i]) = ToUpperChar(b[i])

\* C11: the trust check accepts the peer exactly when the hex digest of
\* its leaf certificate equals the configured fingerprint up to letter
\* case, whatever the standard validation of its chain says.
C11_PinningDecides ==
    tlsPhase = "done"
       => /\ tlsErr \in {"nil", "mismatch"}
          /\ tlsErr = "nil" <=> EqualFold(HexEncode(Sha256(peerCert)), fingerprint)

C11_Witness ==
    /\ tlsPhase = "done"
    /\ tlsErr = "nil"
    /\ ~chainValid
    /\ fingerprint # ToLower(fingerprint)

\* C12 (as stated): with an empty fingerprint a secured connect is not
\* rejected with a fingerprint mismatch, and a peer is accepted only if its
\* chain passes the standard validation.
C12_EmptyFingerprintFallsBack ==
    (tlsPhase = "done" /\ fingerprint = <<>>)
       => /\ tlsErr # "mismatch"
          /\ tlsErr = "nil" => chainValid

\* C12 (amended): with an empty fingerprint the digest is compared with
\* the empty string, so every peer is rejected with a fingerprint
\* mismatch, whether or not its chain passes the standard validation.
C12_EmptyFingerprintRejects ==
    (tlsPhase = "done" /\ fingerprint = <<>>) => tlsErr = "mismatch"

C12_Witness ==
    /\ tlsPhase = "done"
    /\ fingerprint = <<>>
    /\ chainValid
    /\ tlsErr = "mismatch"

\* C13: the frames passed to parent.OnSourceFrame in a session are the
\* frames the transport passed to the callback, in the same order, with at
\* most the frame of the running callback still to be relayed.
C13_FramesRelayedInOrder ==
    /\ Len(relayed) <= Len(delivered)
    /\ \A i \in 1..Len(relayed) : relayed[i] = delivered[i]
    /\ reader = "callback" => Len(relayed) = Len(delivered) - 1
    /\ reader # "callback" => relayed = delivered

C13_Witness ==
    /\ Len(relayed) = MaxFrames
    /\ relayed[1] # relayed[MaxFrames]
    /\ reader = "reading"

\* C14 (as stated): every attempt of runInner that has returned has sent
\* a not-ready notification.
C14_TeardownOnEveryPath ==
    (AttemptEnded /\ attempts > 0) => "notReady" \in sent

\* C14 (amended): an attempt of runInner that has returned has sent a
\* not-ready notification exactly if it has sent the ready notification,
\* which it has if it reached the read phase; an attempt that ends in the
\* dial phase has sent no notification.
C14_TeardownAfterReady ==
    (AttemptEnded /\ attempts > 0)
       => /\ "notReady" \in sent <=> "ready" \in sent
          /\ reader # "idle" => sent = {"ready", "notReady"}
          /\ reader = "idle" => sent = {}

C14_Witness ==
    /\ pc = "exit"
    /\ ~ok
    /\ sent = {"ready", "notReady"}

\* C15: when an attempt of runInner has returned, and so when run() has
\* exited, its dial goroutine and its read goroutine have terminated.
C15_GoroutinesJoined ==
    AttemptEnded => (dial # "running" /\ reader \in {"idle", "exited"})

C15_Witness ==
    /\ pc = "stopped"
    /\ wg = 0
    /\ dial = "exited"
    /\ err = "canceled"

\* C16 (as stated): after a cancellation during the read the session is
\* closed before the result of the read is received, the result is
\* received before the not-ready notification, the notification is sent
\* before run() exits, and the pause of run() is not entered.
C16_CancelledReadOrder ==
    cancelInRead
       => /\ reader = "exited" => conn = "closed"
          /\ ~sinkReady => reader = "exited"
          /\ pc \in {"exit", "stopped"} => ~sinkReady
          /\ ~Cooling

\* C16 (amended): after a cancellation during the read the session is
\* closed and the result of the read received before the not-ready
\* notification, which is sent before run() exits, and run() neither waits
\* in its pause nor starts an attempt; when the select of the read phase
\* takes the Done case the session is closed before the result is
\* received and runInner returns false straight to the exit.
C16_CancelledReadUnwinds ==
    /\ pc = "readJoin" => (conn = "closed" /\ sinkReady)
    /\ (pc = "deferred" /\ ~ok) => (conn = "closed" /\ reader = "exited" /\ sinkReady)
    /\ ~ok => pc \in {"deferred", "exit", "stopped"}
    /\ cancelInRead
         => /\ ~sinkReady => (reader = "exited" /\ conn = "closed")
            /\ pc \in {"exit", "stopped"} => ~sinkReady
            /\ pc \notin {"cooldownParked", "runInner", "dialSelect", "dialParked"}

C16_Witness ==
    /\ pc = "stopped"
    /\ cancelInRead
    /\ ~ok
    /\ readErr = "closed"
    /\ ~sinkReady

\* C17: once s.ctx is cancelled no dial goroutine and no read goroutine
\* is started.
C17_NoNewWorkAfterCancel ==
    [][ctxDone => /\ dial' = "running" => dial = "running"
                  /\ reader' = "reading" => reader \in {"reading", "callback"}]_vars

\* C18: a dial starts only at the first attempt or after the timer of the
\* pause has fired; the pause is entered only by an attempt that returned
\* true; an attempt that returned false is followed by the exit of run()
\* with no pause and no further notification.
C18_NoBusyLoop ==
    [][/\ (pc' = "dialSelect" /\ pc # "dialSelect") => pc = "runInner"
       /\ (pc' = "runInner" /\ pc # "runInner")
             => (pc = "cooldownParked" /\ ok /\ ~ctxDone)
       /\ (pc' = "cooldownParked" /\ pc # "cooldownParked")
             => (pc = "cooldownSelect" /\ ok)
       /\ (pc' = "cooldownSelect" /\ pc # "cooldownSelect") => ok'
       /\ ~ok' => pc' \notin {"cooldownSelect", "cooldownParked", "runInner"}
       /\ pc \in {"exit", "stopped"}
             => (pc' \in {"exit", "stopped"} /\ notes' = notes)]_vars

C18_Witness ==
    /\ pc = "dialParked"
    /\ attempts = MaxAttempts
    /\ errLog = {<<"dial", "fail">>}
    /\ ~ctxDone

\* C19: no "ERR" line is logged for an error that the cancellation
\* caused: the dial error of a cancelled innerCtx and the read error of a
\* closed session are never logged.
C19_CancellationNotLogged ==
    errLog \subseteq {<<"dial", "fail">>, <<"read", "fail">>}

C19_Witness ==
    /\ pc = "stopped"
    /\ readErr = "closed"
    /\ errLog = {}

\* C20: a dial goroutine runs with no read goroutine and no session; a
\* read goroutine runs only after the dial goroutine has exited; a new
\* attempt starts with no goroutine and no open session of the previous
\* one; a session is closed at most once, and is closed while its read is
\* running only by the close that precedes the receive from readErr.
C20_ExclusiveOwnership ==
    /\ dial = "running" => (reader = "idle" /\ conn = "nil" /\ closes = 0)
    /\ reader \in {"reading", "callback", "sending"}
          => (dial = "exited" /\ conn # "nil")
    /\ pc = "runInner"
          => (dial # "running" /\ reader \in {"idle", "exited"} /\ conn # "open")
    /\ closes <= 1
    /\ closes = 1 <=> conn = "closed"
    /\ (conn = "closed" /\ reader \in {"reading", "callback"}) => pc = "readJoin"

C20_Witness ==
    /\ pc = "readJoin"
    /\ reader = "callback"
    /\ conn = "closed"
    /\ closes = 1

====
